---- MODULE Spec2Model ----
(***************************************************************************)
(* Model of the STM32 CRYP driver, drivers/crypto/crypto_stm32.c.          *)
(*                                                                         *)
(* Threads call the three entry points of the driver on caller-owned       *)
(* cipher contexts: begin_session (crypto_stm32_session_setup), the mode   *)
(* handler bound by it (crypto_stm32_{ecb,cbc,ctr}_{encrypt,decrypt}) and  *)
(* free_session (crypto_stm32_session_free).  A thread is preemptible      *)
(* between any two accesses to shared data, so every access to the session *)
(* table, to the two semaphores and to the accelerator handle is a step of *)
(* its own.  The vendor HAL is an opaque synchronous interface: each       *)
(* HAL_CRYP_* call occupies the thread while pc is at its label, and       *)
(* completes with HAL_OK or with an error.                                 *)
(*                                                                         *)
(* Spec has two threads and few kinds of request, SpecSeq a single caller  *)
(* of every mode in either direction, SpecKey a single caller of the CTR   *)
(* handlers with every key length, and SpecWords applies                   *)
(* copy_reverse_words to buffers of its own.                               *)
(***************************************************************************)
EXTENDS Integers, FiniteSets, Sequences, TLC

\* ---------------------------------------------------------------- bounds
NThreads == 2
NCtx == 3
\* Longest buffer given to copy_reverse_words on its own, in 4-byte words.
MaxWords == 2

\* ------------------------------------------------------ program constants
CRYPTO_MAX_SESSION == 2
BLOCK_LEN_BYTES == 16
CRYPTO_STM32_AES_MAX_KEY_LEN == 32

Threads == 1..NThreads
Ctxs == 1..NCtx
Slots == 0..(CRYPTO_MAX_SESSION - 1)

\* No thread / no context / no session.
NONE == 0 - 1

\* Inputs of begin_session.  CAP_OPAQUE_KEY_HNDL stands for any capability
\* outside CRYP_SUPPORT, DES for any algorithm but AES, CCM for any mode
\* outside ECB, CBC, CTR.
CAP_RAW_KEY == "CAP_RAW_KEY"
CAP_SEPARATE_IO_BUFS == "CAP_SEPARATE_IO_BUFS"
CAP_SYNC_OPS == "CAP_SYNC_OPS"
CAP_OPAQUE_KEY_HNDL == "CAP_OPAQUE_KEY_HNDL"
CRYP_SUPPORT == {CAP_RAW_KEY, CAP_SEPARATE_IO_BUFS, CAP_SYNC_OPS}
FlagSets == {{CAP_RAW_KEY, CAP_SYNC_OPS}, {CAP_RAW_KEY, CAP_OPAQUE_KEY_HNDL}}
Algos == {"AES", "DES"}
Modes == {"ECB", "CBC", "CTR", "CCM"}
OpTypes == {"ENCRYPT", "DECRYPT"}
KeyLens == {8, 16, 24, 32}
\* What concurrent callers ask for: one request per path through the mode
\* handlers (ECB's length check, do_encrypt, do_decrypt) and one that
\* session_setup rejects; a key length it accepts and one it rejects.
SomeRequests == {<<"ECB", "ENCRYPT">>, <<"CBC", "DECRYPT">>,
                 <<"CCM", "ENCRYPT">>}
SomeKeyLens == {8, 16}
\* What a single caller asks for: every mode in either direction.
Requests == Modes \X OpTypes
InLens == {BLOCK_LEN_BYTES, 2 * BLOCK_LEN_BYTES}
\* Counter sizes in bits, ctx->mode_params.ctr_info.ctr_len.
CtrLens == {32, 64}

\* A call that has been validated keeps its mode, direction and key length
\* until it binds them; no other call has arguments to remember.
NoArgs == [mode |-> "-", op |-> "-", keylen |-> 0]


VARIABLES
    in_use,       \* crypto_stm32_sessions[s].in_use
    State,        \* data->hcryp.State
    hcryp_conf,   \* the session whose config the accelerator is loaded with
    device_sem,   \* holder of data->device_sem, NONE when available
    session_sem,  \* holder of data->session_sem, NONE when available
    sessn,        \* ctx->drv_sessn_state: slot bound to a context, or NONE
    hndlr,        \* ctx->ops handler bound to a context: <<mode, op>>
    pc,           \* position of each thread
    cur,          \* context of the call a thread is in
    i,            \* loop index / ctx_idx of the call a thread is in
    args,         \* mode, op_type and keylen of a begin_session in progress
    ret,          \* status / return value of the call a thread is in
    used_conf,    \* configuration the accelerator ran a thread's data under
    ctx_keylen,   \* ctx->keylen of a bound context
    key,          \* crypto_stm32_sessions[s].key, a buffer of bytes
    words,        \* a buffer going through copy_reverse_words: its bytes
                  \* at first, its bytes now, and the times transformed
    pkt,          \* the packet of the handler call a thread is in, with the
                  \* buffer offset and length the handler passes on
    owed,         \* returns of the live count to 0 that a free_session in
                  \* progress has yet to answer with a HAL_CRYP_DeInit call;
                  \* -1 after a call that had none to answer, until a slot
                  \* is claimed
    pre,          \* the begin_session that no other call has followed yet
    late          \* slots released, outside the session semaphore, since
                  \* the scan of get_unused_session_index in progress began

vars == <<in_use, State, hcryp_conf, device_sem, session_sem, sessn, hndlr,
          pc, cur, i, args, ret, used_conf, ctx_keylen, key, words, pkt, owed, pre,
          late>>

shared == <<in_use, State, hcryp_conf, device_sem, session_sem>>
ctxs == <<sessn, hndlr, ctx_keylen>>
ghost == <<owed, pre, late>>

NoHndlr == <<"-", "-">>

\* No buffer.
NoWords == [orig |-> <<>>, buf |-> <<>>, n |-> 0]

\* Values of a byte.
ByteVals == {0, 1}

\* The byte buffers of a whole number of 4-byte words.
Buffers ==
    UNION {[1..(4 * w) -> ByteVals] : w \in 0..MaxWords}

\* No handler call in progress.
NoPkt == [in_len |-> 0, out_len |-> 0, off |-> 0, len |-> 0, ivlen |-> 0]

\* Number of slots marked in use.
LiveCount == Cardinality({s \in Slots : in_use[s]})

\* The free_session calls, other than thread t's, that have yet to decide
\* whether they call HAL_CRYP_DeInit.
Deciding(t) ==
    Cardinality({u \in Threads \ {t} : pc[u] \in {"free_take", "free_scan"}})

Min(a, b) == IF a < b THEN a ELSE b

\* The unanswered returns to 0 once thread t releases slot s, where f is 1
\* if t is itself a free_session still to decide, and 0 otherwise.
Released(t, s, f) ==
    IF in_use[s] /\ LiveCount = 1
       THEN Min((IF owed < 0 THEN 0 ELSE owed) + 1, Deciding(t) + f)
       ELSE owed

\* The unanswered returns to 0 once thread t calls HAL_CRYP_DeInit.
Answered == IF owed > 0 THEN owed - 1 ELSE NONE

\* The unanswered returns to 0 once thread t's free_session has found a
\* slot in use.
Unanswered(t) == Min(owed, Deciding(t))

\* The slots released since get_unused_session_index took the session
\* semaphore, once slot s is.
Late(s) ==
    IF \E u \in Threads : pc[u] \in {"gu_scan", "gu_give"}
       THEN late \cup {s}
       ELSE late

\* A context no thread is currently calling the driver on.
Quiet(c) == \A t \in Threads : cur[t] # c

\* No begin_session is being followed.
NoPre == [ctx |-> NONE, keylen |-> 0, state |-> "-",
          snap |-> [s \in Slots |-> FALSE]]

\* The context a caller takes for a new session: contexts are
\* interchangeable, the caller uses the first one that is not bound.
Fresh(c) ==
    /\ sessn[c] = NONE
    /\ Quiet(c)
    /\ \A d \in Ctxs : d < c => ~(sessn[d] = NONE /\ Quiet(d))

\* The driver after crypto_stm32_init: semaphores available, accelerator
\* deinitialized, the session table as the loader zeroes it.
DriverInit ==
    /\ in_use = [s \in Slots |-> FALSE]
    /\ State = "RESET"
    /\ hcryp_conf = NONE
    /\ device_sem = NONE
    /\ session_sem = NONE
    /\ sessn = [c \in Ctxs |-> NONE]
    /\ hndlr = [c \in Ctxs |-> NoHndlr]
    /\ pc = [t \in Threads |-> "idle"]
    /\ cur = [t \in Threads |-> NONE]
    /\ i = [t \in Threads |-> 0]
    /\ args = [t \in Threads |-> NoArgs]
    /\ ret = [t \in Threads |-> "-"]
    /\ used_conf = [t \in Threads |-> NONE]
    /\ ctx_keylen = [c \in Ctxs |-> 0]
    /\ pkt = [t \in Threads |-> NoPkt]
    /\ key = [s \in Slots |-> [k \in 1..CRYPTO_STM32_AES_MAX_KEY_LEN |-> 0]]
    /\ owed = 0
    /\ pre = NoPre
    /\ late = {}

Init == DriverInit /\ words = NoWords

\* A buffer to transform, the driver left alone.
InitWords ==
    /\ DriverInit
    /\ \E b \in Buffers : words = [orig |-> b, buf |-> b, n |-> 0]

\* ------------------------------------------------------------------------
\* begin_session: crypto_stm32_session_setup
\* ------------------------------------------------------------------------

\* The two assertions of copy_reverse_words.
copy_reverse_words_pre(dst_len, src_len) ==
    dst_len >= src_len /\ dst_len % 4 = 0

\* copy_reverse_words with the bytes of each word moved up by one place
\* instead of swapped end for end.
copy_reverse_words_Rotate(dst_buf, dst_len, src_buf, src_len) ==
    LET copied == [k \in 1..dst_len |->
                      IF k <= src_len THEN src_buf[k] ELSE dst_buf[k]]
    IN  [k \in 1..dst_len |->
            copied[4 * ((k - 1) \div 4) + (k % 4) + 1]]

\* copy_reverse_words: memcpy of src_len bytes into the destination, then
\* sys_mem_swap of every 4-byte word of the dst_len bytes of the
\* destination.  Buffers are sequences of bytes.
copy_reverse_words(dst_buf, dst_len, src_buf, src_len) ==
    LET copied == [k \in 1..dst_len |->
                      IF k <= src_len THEN src_buf[k] ELSE dst_buf[k]]
    IN  [k \in 1..dst_len |->
            copied[4 * ((k - 1) \div 4) + (3 - ((k - 1) % 4)) + 1]]

\* ctx->key.bit_stream: the key a caller supplies for a key length.
UserKey(keylen) == [k \in 1..keylen |-> keylen + k]

\* session_setup without its key length check.
ValidParams_AnyKeyLen(flags, algo, mode, keylen) ==
    /\ flags \subseteq CRYP_SUPPORT
    /\ algo = "AES"
    /\ mode \in {"ECB", "CBC", "CTR"}

\* The four parameter checks of session_setup.
ValidParams(flags, algo, mode, keylen) ==
    /\ flags \subseteq CRYP_SUPPORT
    /\ algo = "AES"
    /\ mode \in {"ECB", "CBC", "CTR"}
    /\ keylen \in {16, 24, 32}

\* Entry of session_setup on an unbound context: parameter validation.
crypto_stm32_session_setup(t, c, flags, algo, mode, op, keylen) ==
    /\ pc[t] = "idle"
    /\ Fresh(c)
    /\ cur' = [cur EXCEPT ![t] = c]
    /\ IF ValidParams(flags, algo, mode, keylen)
          THEN /\ pc' = [pc EXCEPT ![t] = "gu_take"]
               /\ args' = [args EXCEPT ![t] =
                              [mode |-> mode, op |-> op, keylen |-> keylen]]
               /\ ret' = [ret EXCEPT ![t] = "-"]
               /\ pre' = IF \A u \in Threads \ {t} : pc[u] = "idle"
                             THEN [ctx |-> c, keylen |-> keylen,
                                   state |-> State, snap |-> in_use]
                             ELSE NoPre
          ELSE /\ pc' = [pc EXCEPT ![t] = "setup_return"]
               /\ args' = args
               /\ ret' = [ret EXCEPT ![t] = "-EINVAL"]
               /\ pre' = NoPre
    /\ UNCHANGED <<shared, ctxs, i, used_conf, pkt, key, words, owed, late>>

\* get_unused_session_index with a scan that starts at the second slot.
get_unused_take_FromOne(t) ==
    /\ pc[t] = "gu_take"
    /\ session_sem = NONE
    /\ session_sem' = t
    /\ pc' = [pc EXCEPT ![t] = "gu_scan"]
    /\ i' = [i EXCEPT ![t] = 1]
    /\ late' = {}
    /\ UNCHANGED <<in_use, State, hcryp_conf, device_sem, ctxs, cur, args,
                   ret, used_conf, pkt, key, words, owed, pre>>

\* get_unused_session_index: k_sem_take(&data->session_sem).
get_unused_take(t) ==
    /\ pc[t] = "gu_take"
    /\ session_sem = NONE
    /\ session_sem' = t
    /\ pc' = [pc EXCEPT ![t] = "gu_scan"]
    /\ i' = [i EXCEPT ![t] = 0]
    /\ late' = {}
    /\ UNCHANGED <<in_use, State, hcryp_conf, device_sem, ctxs, cur, args,
                   ret, used_conf, pkt, key, words, owed, pre>>

\* get_unused_session_index with a scan that stops one slot early.
get_unused_scan_Short(t) ==
    /\ pc[t] = "gu_scan"
    /\ IF i[t] < CRYPTO_MAX_SESSION - 1
          THEN IF ~in_use[i[t]]
                  THEN /\ in_use' = [in_use EXCEPT ![i[t]] = TRUE]
                       /\ owed' = IF owed < 0 THEN 0 ELSE owed
                       /\ pc' = [pc EXCEPT ![t] = "gu_give"]
                       /\ i' = i
                  ELSE /\ i' = [i EXCEPT ![t] = i[t] + 1]
                       /\ UNCHANGED <<in_use, owed, pc>>
          ELSE /\ i' = [i EXCEPT ![t] = NONE]
               /\ pc' = [pc EXCEPT ![t] = "gu_give"]
               /\ UNCHANGED <<in_use, owed>>
    /\ UNCHANGED <<State, hcryp_conf, device_sem, session_sem, ctxs, cur,
                   args, ret, used_conf, pkt, key, words, pre, late>>

\* get_unused_session_index: one iteration of the scan, or its end.
get_unused_scan(t) ==
    /\ pc[t] = "gu_scan"
    /\ IF i[t] < CRYPTO_MAX_SESSION
          THEN IF ~in_use[i[t]]
                  THEN /\ in_use' = [in_use EXCEPT ![i[t]] = TRUE]
                       /\ owed' = IF owed < 0 THEN 0 ELSE owed
                       /\ pc' = [pc EXCEPT ![t] = "gu_give"]
                       /\ i' = i
                  ELSE /\ i' = [i EXCEPT ![t] = i[t] + 1]
                       /\ UNCHANGED <<in_use, owed, pc>>
          ELSE /\ i' = [i EXCEPT ![t] = NONE]
               /\ pc' = [pc EXCEPT ![t] = "gu_give"]
               /\ UNCHANGED <<in_use, owed>>
    /\ UNCHANGED <<State, hcryp_conf, device_sem, session_sem, ctxs, cur,
                   args, ret, used_conf, pkt, key, words, pre, late>>

\* get_unused_session_index: k_sem_give and return; session_setup then
\* fails with -ENOSPC or clears the config of the claimed session.
get_unused_give(t) ==
    /\ pc[t] = "gu_give"
    /\ session_sem' = NONE
    /\ IF i[t] = NONE
          THEN /\ ret' = [ret EXCEPT ![t] = "-ENOSPC"]
               /\ args' = [args EXCEPT ![t] = NoArgs]
               /\ pc' = [pc EXCEPT ![t] = "setup_return"]
          ELSE /\ pc' = [pc EXCEPT ![t] = "setup_state"]
               /\ UNCHANGED <<ret, args>>
    /\ late' = {}
    /\ UNCHANGED <<in_use, State, hcryp_conf, device_sem, ctxs, cur, i,
                   used_conf, pkt, key, words, owed, pre>>

\* session_setup: if (data->hcryp.State == HAL_CRYP_STATE_RESET), read
\* without any lock; the call of HAL_CRYP_Init follows.
setup_state(t) ==
    /\ pc[t] = "setup_state"
    /\ IF State = "RESET"
          THEN pc' = [pc EXCEPT ![t] = "hal_init"]
          ELSE pc' = [pc EXCEPT ![t] = "setup_bind"]
    /\ UNCHANGED <<shared, ctxs, cur, i, args, ret, used_conf, pkt, key, words, ghost>>

\* HAL_CRYP_Init, first half: the handle is marked busy.
HAL_CRYP_Init_busy(t) ==
    /\ pc[t] = "hal_init"
    /\ State' = "BUSY"
    /\ pc' = [pc EXCEPT ![t] = "hal_init_run"]
    /\ UNCHANGED <<in_use, hcryp_conf, device_sem, session_sem, ctxs, cur,
                   i, args, ret, used_conf, pkt, key, words, ghost>>

\* HAL_CRYP_Init, completion: ready on HAL_OK, back in reset on an error.
HAL_CRYP_Init(t, ok) ==
    /\ pc[t] = "hal_init_run"
    /\ IF ok
          THEN /\ State' = "READY"
               /\ pc' = [pc EXCEPT ![t] = "setup_bind"]
          ELSE /\ State' = "RESET"
               /\ pc' = [pc EXCEPT ![t] = "setup_init_fail"]
    /\ UNCHANGED <<in_use, hcryp_conf, device_sem, session_sem, ctxs, cur,
                   i, args, ret, used_conf, pkt, key, words, ghost>>

\* session_setup returning the initialization error without releasing the
\* session it had claimed.
setup_init_fail_KeepSlot(t) ==
    /\ pc[t] = "setup_init_fail"
    /\ ret' = [ret EXCEPT ![t] = "-EIO"]
    /\ args' = [args EXCEPT ![t] = NoArgs]
    /\ pc' = [pc EXCEPT ![t] = "setup_return"]
    /\ UNCHANGED <<shared, ctxs, cur, i, used_conf, pkt, key, words, ghost>>

\* session_setup: initialization error, session->in_use = false; -EIO.
setup_init_fail(t) ==
    /\ pc[t] = "setup_init_fail"
    /\ in_use' = [in_use EXCEPT ![i[t]] = FALSE]
    /\ owed' = Released(t, i[t], 0)
    /\ late' = Late(i[t])
    /\ ret' = [ret EXCEPT ![t] = "-EIO"]
    /\ args' = [args EXCEPT ![t] = NoArgs]
    /\ pc' = [pc EXCEPT ![t] = "setup_return"]
    /\ UNCHANGED <<State, hcryp_conf, device_sem, session_sem, ctxs, cur, i,
                   used_conf, pkt, key, words, pre>>

\* session_setup: key size, algorithm, mode handler, key, and the binding
\* of the session to the context; return 0.
setup_bind(t) ==
    /\ pc[t] = "setup_bind"
    /\ hndlr' = [hndlr EXCEPT ![cur[t]] = <<args[t].mode, args[t].op>>]
    /\ sessn' = [sessn EXCEPT ![cur[t]] = i[t]]
    /\ ctx_keylen' = [ctx_keylen EXCEPT ![cur[t]] = args[t].keylen]
    /\ key' = [key EXCEPT ![i[t]] =
                  copy_reverse_words(key[i[t]], CRYPTO_STM32_AES_MAX_KEY_LEN,
                                     UserKey(args[t].keylen),
                                     args[t].keylen)]
    /\ ret' = [ret EXCEPT ![t] = "0"]
    /\ args' = [args EXCEPT ![t] = NoArgs]
    /\ pc' = [pc EXCEPT ![t] = "setup_return"]
    /\ UNCHANGED <<shared, cur, i, used_conf, pkt, words, ghost>>

\* begin_session returns to its caller.
setup_return(t) ==
    /\ pc[t] = "setup_return"
    /\ pc' = [pc EXCEPT ![t] = "idle"]
    /\ cur' = [cur EXCEPT ![t] = NONE]
    /\ i' = [i EXCEPT ![t] = 0]
    /\ ret' = [ret EXCEPT ![t] = "-"]
    /\ pre' = IF ret[t] = "0" THEN pre ELSE NoPre
    /\ UNCHANGED <<shared, ctxs, args, used_conf, pkt, key, words, owed, late>>

\* ------------------------------------------------------------------------
\* the mode handlers and do_encrypt / do_decrypt
\* ------------------------------------------------------------------------

\* The offset into pkt->in_buf that a handler passes to do_encrypt or
\* do_decrypt; the length it passes is pkt->in_len in every handler.
InOffset(h) == IF h = <<"CBC", "DECRYPT">> THEN BLOCK_LEN_BYTES ELSE 0

\* pkt->out_len as the handler sets it when do_encrypt / do_decrypt
\* returns 0.
OutLen(h, in_len) ==
    CASE h[1] = "ECB" -> 16
      [] h = <<"CBC", "ENCRYPT">> -> in_len + 16
      [] h = <<"CBC", "DECRYPT">> -> in_len - 16
      [] OTHER -> in_len

\* ivlen of the CTR handlers, 0 in the others.
IvLen(c, ctr_len) ==
    IF hndlr[c][1] = "CTR" THEN ctx_keylen[c] - (ctr_len \div 8) ELSE 0

\* The handlers without the length check of the ECB handlers.
crypt_hndlr_NoLenCheck(t, c, in_len, ctr_len, halt) ==
    /\ pc[t] = "idle"
    /\ sessn[c] # NONE
    /\ Quiet(c)
    /\ halt => ~copy_reverse_words_pre(BLOCK_LEN_BYTES, IvLen(c, ctr_len))
    /\ cur' = [cur EXCEPT ![t] = c]
    /\ pkt' = [pkt EXCEPT ![t] =
                  [in_len |-> in_len, out_len |-> 0,
                   off |-> InOffset(hndlr[c]), len |-> in_len,
                   ivlen |-> IvLen(c, ctr_len)]]
    /\ ret' = [ret EXCEPT ![t] = "-"]
    /\ pc' = [pc EXCEPT ![t] = IF halt THEN "halted" ELSE "do_take"]
    /\ pre' = NoPre
    /\ UNCHANGED <<shared, ctxs, i, args, used_conf, key, words, owed, late>>

\* Entry of the handler bound to a context, up to the call of do_encrypt
\* or do_decrypt.  The ECB handlers reject more than one block.  The CBC
\* handlers reverse the 16 bytes of the IV into vec, the CTR handlers
\* ivlen bytes of it into the 16 bytes of ctr: where an assertion of
\* copy_reverse_words fails the call halts (halt) if assertions are
\* built in and goes on after the overflowing memcpy if they are not.
crypt_hndlr(t, c, in_len, ctr_len, halt) ==
    /\ pc[t] = "idle"
    /\ sessn[c] # NONE
    /\ Quiet(c)
    /\ halt => ~copy_reverse_words_pre(BLOCK_LEN_BYTES, IvLen(c, ctr_len))
    /\ cur' = [cur EXCEPT ![t] = c]
    /\ IF hndlr[c][1] = "ECB" /\ in_len > 16
          THEN /\ pkt' = [pkt EXCEPT ![t] =
                             [NoPkt EXCEPT !.in_len = in_len]]
               /\ ret' = [ret EXCEPT ![t] = "-EINVAL"]
               /\ pc' = [pc EXCEPT ![t] = "crypt_return"]
          ELSE /\ pkt' = [pkt EXCEPT ![t] =
                             [in_len |-> in_len, out_len |-> 0,
                              off |-> InOffset(hndlr[c]), len |-> in_len,
                              ivlen |-> IvLen(c, ctr_len)]]
               /\ ret' = [ret EXCEPT ![t] = "-"]
               /\ pc' = [pc EXCEPT ![t] =
                            IF halt THEN "halted" ELSE "do_take"]
    /\ pre' = NoPre
    /\ UNCHANGED <<shared, ctxs, i, args, used_conf, key, words, owed, late>>

\* do_encrypt / do_decrypt going ahead without waiting for the semaphore.
do_crypt_take_NoWait(t) ==
    /\ pc[t] = "do_take"
    /\ device_sem' = t
    /\ pc' = [pc EXCEPT ![t] = "hal_setconfig"]
    /\ UNCHANGED <<in_use, State, hcryp_conf, session_sem, ctxs, cur, i,
                   args, ret, used_conf, pkt, key, words, ghost>>

\* do_encrypt / do_decrypt: k_sem_take(&data->device_sem).
do_crypt_take(t) ==
    /\ pc[t] = "do_take"
    /\ device_sem = NONE
    /\ device_sem' = t
    /\ pc' = [pc EXCEPT ![t] = "hal_setconfig"]
    /\ UNCHANGED <<in_use, State, hcryp_conf, session_sem, ctxs, cur, i,
                   args, ret, used_conf, pkt, key, words, ghost>>

\* HAL_CRYP_SetConfig(&data->hcryp, &session->config).
HAL_CRYP_SetConfig(t, ok) ==
    /\ pc[t] = "hal_setconfig"
    /\ IF ok
          THEN /\ hcryp_conf' = sessn[cur[t]]
               /\ pc' = [pc EXCEPT ![t] =
                            IF hndlr[cur[t]][2] = "ENCRYPT"
                               THEN "hal_encrypt" ELSE "hal_decrypt"]
               /\ ret' = ret
          ELSE /\ hcryp_conf' = hcryp_conf
               /\ ret' = [ret EXCEPT ![t] = "-EIO"]
               /\ pc' = [pc EXCEPT ![t] = "do_give"]
    /\ UNCHANGED <<in_use, State, device_sem, session_sem, ctxs, cur, i,
                   args, used_conf, pkt, key, words, ghost>>

\* The accelerator runs the data under the configuration it holds.
HalRun(t, ok) ==
    /\ used_conf' = [used_conf EXCEPT ![t] = IF ok THEN hcryp_conf ELSE NONE]
    /\ ret' = [ret EXCEPT ![t] = IF ok THEN "0" ELSE "-EIO"]
    /\ pc' = [pc EXCEPT ![t] = "do_give"]
    /\ UNCHANGED <<shared, ctxs, cur, i, args, pkt, key, words, ghost>>

\* HAL_CRYP_Encrypt in do_encrypt.
HAL_CRYP_Encrypt(t, ok) ==
    /\ pc[t] = "hal_encrypt"
    /\ HalRun(t, ok)

\* HAL_CRYP_Decrypt in do_decrypt.
HAL_CRYP_Decrypt(t, ok) ==
    /\ pc[t] = "hal_decrypt"
    /\ HalRun(t, ok)

\* do_encrypt / do_decrypt: k_sem_give(&data->device_sem) on each of the
\* three exit paths; back in the handler, pkt->out_len is set if the
\* result is 0.
do_crypt_give(t) ==
    /\ pc[t] = "do_give"
    /\ device_sem' = NONE
    /\ pkt' = IF ret[t] = "0"
                 THEN [pkt EXCEPT ![t].out_len =
                          OutLen(hndlr[cur[t]], pkt[t].in_len)]
                 ELSE pkt
    /\ pc' = [pc EXCEPT ![t] = "crypt_return"]
    /\ UNCHANGED <<in_use, State, hcryp_conf, session_sem, ctxs, cur, i,
                   args, ret, used_conf, key, words, ghost>>

\* The handler returns to its caller.
crypt_return(t) ==
    /\ pc[t] = "crypt_return"
    /\ pc' = [pc EXCEPT ![t] = "idle"]
    /\ cur' = [cur EXCEPT ![t] = NONE]
    /\ ret' = [ret EXCEPT ![t] = "-"]
    /\ used_conf' = [used_conf EXCEPT ![t] = NONE]
    /\ pkt' = [pkt EXCEPT ![t] = NoPkt]
    /\ UNCHANGED <<shared, ctxs, i, args, key, words, ghost>>

\* ------------------------------------------------------------------------
\* free_session: crypto_stm32_session_free
\* ------------------------------------------------------------------------

\* session_free that leaves the slot marked in use.
crypto_stm32_session_free_KeepSlot(t, c) ==
    /\ pc[t] = "idle"
    /\ sessn[c] # NONE
    /\ Quiet(c)
    /\ cur' = [cur EXCEPT ![t] = c]
    /\ pc' = [pc EXCEPT ![t] = "free_take"]
    /\ ret' = [ret EXCEPT ![t] = "-"]
    /\ pre' = IF pre.ctx = c THEN pre ELSE NoPre
    /\ UNCHANGED <<shared, ctxs, i, args, used_conf, pkt, key, words, owed, late>>

\* Entry of session_free on a bound context: session->in_use = false,
\* written before the session semaphore is taken.
crypto_stm32_session_free(t, c) ==
    /\ pc[t] = "idle"
    /\ sessn[c] # NONE
    /\ Quiet(c)
    /\ cur' = [cur EXCEPT ![t] = c]
    /\ in_use' = [in_use EXCEPT ![sessn[c]] = FALSE]
    /\ owed' = Released(t, sessn[c], 1)
    /\ late' = Late(sessn[c])
    /\ pc' = [pc EXCEPT ![t] = "free_take"]
    /\ ret' = [ret EXCEPT ![t] = "-"]
    /\ pre' = IF pre.ctx = c THEN pre ELSE NoPre
    /\ UNCHANGED <<State, hcryp_conf, device_sem, session_sem, ctxs, i, args,
                   used_conf, pkt, key, words>>

\* session_free: k_sem_take(&data->session_sem).
free_take(t) ==
    /\ pc[t] = "free_take"
    /\ session_sem = NONE
    /\ session_sem' = t
    /\ i' = [i EXCEPT ![t] = 0]
    /\ pc' = [pc EXCEPT ![t] = "free_scan"]
    /\ UNCHANGED <<in_use, State, hcryp_conf, device_sem, ctxs, cur, args,
                   ret, used_conf, pkt, key, words, ghost>>

\* session_free: one iteration of the scan for a session still in use, or
\* its end, where HAL_CRYP_DeInit is called.
free_scan(t) ==
    /\ pc[t] = "free_scan"
    /\ IF i[t] < CRYPTO_MAX_SESSION
          THEN IF in_use[i[t]]
                  THEN /\ ret' = [ret EXCEPT ![t] = "0"]
                       /\ pc' = [pc EXCEPT ![t] = "free_give"]
                       /\ owed' = Unanswered(t)
                       /\ i' = i
                  ELSE /\ i' = [i EXCEPT ![t] = i[t] + 1]
                       /\ UNCHANGED <<ret, pc, owed>>
          ELSE /\ pc' = [pc EXCEPT ![t] = "hal_deinit"]
               /\ owed' = Answered
               /\ UNCHANGED <<i, ret>>
    /\ UNCHANGED <<shared, ctxs, cur, args, used_conf, pkt, key, words, pre, late>>

\* session_free returning on a deinitialization error without giving the
\* semaphore back.
HAL_CRYP_DeInit_NoGive(t, ok) ==
    /\ pc[t] = "hal_deinit"
    /\ State' = IF ok THEN "RESET" ELSE State
    /\ hcryp_conf' = IF ok THEN NONE ELSE hcryp_conf
    /\ ret' = [ret EXCEPT ![t] = IF ok THEN "0" ELSE "-EIO"]
    /\ pc' = [pc EXCEPT ![t] = IF ok THEN "free_give" ELSE "free_return"]
    /\ UNCHANGED <<in_use, device_sem, session_sem, ctxs, cur, i, args,
                   used_conf, pkt, key, words, ghost>>

\* session_free taking the session back into use when the
\* deinitialization fails.
HAL_CRYP_DeInit_Rollback(t, ok) ==
    /\ pc[t] = "hal_deinit"
    /\ State' = IF ok THEN "RESET" ELSE State
    /\ hcryp_conf' = IF ok THEN NONE ELSE hcryp_conf
    /\ in_use' = IF ok THEN in_use
                       ELSE [in_use EXCEPT ![sessn[cur[t]]] = TRUE]
    /\ ret' = [ret EXCEPT ![t] = IF ok THEN "0" ELSE "-EIO"]
    /\ pc' = [pc EXCEPT ![t] = "free_give"]
    /\ UNCHANGED <<device_sem, session_sem, ctxs, cur, i, args,
                   used_conf, pkt, key, words, ghost>>

\* HAL_CRYP_DeInit and, on HAL_OK, the reset of the peripheral.
HAL_CRYP_DeInit(t, ok) ==
    /\ pc[t] = "hal_deinit"
    /\ State' = IF ok THEN "RESET" ELSE State
    /\ hcryp_conf' = IF ok THEN NONE ELSE hcryp_conf
    /\ ret' = [ret EXCEPT ![t] = IF ok THEN "0" ELSE "-EIO"]
    /\ pc' = [pc EXCEPT ![t] = "free_give"]
    /\ UNCHANGED <<in_use, device_sem, session_sem, ctxs, cur, i, args,
                   used_conf, pkt, key, words, ghost>>

\* session_free: k_sem_give(&data->session_sem) on each of the three exit
\* paths.
free_give(t) ==
    /\ pc[t] = "free_give"
    /\ session_sem' = NONE
    /\ pc' = [pc EXCEPT ![t] = "free_return"]
    /\ UNCHANGED <<in_use, State, hcryp_conf, device_sem, ctxs, cur, i, args,
                   ret, used_conf, pkt, key, words, ghost>>

\* free_session returns; the caller is done with the context, whose next
\* use is a new begin_session.
free_return(t) ==
    /\ pc[t] = "free_return"
    /\ sessn' = [sessn EXCEPT ![cur[t]] = NONE]
    /\ hndlr' = [hndlr EXCEPT ![cur[t]] = NoHndlr]
    /\ ctx_keylen' = [ctx_keylen EXCEPT ![cur[t]] = 0]
    /\ pc' = [pc EXCEPT ![t] = "idle"]
    /\ cur' = [cur EXCEPT ![t] = NONE]
    /\ i' = [i EXCEPT ![t] = 0]
    /\ ret' = [ret EXCEPT ![t] = "-"]
    /\ pre' = NoPre
    /\ UNCHANGED <<shared, args, used_conf, pkt, key, words, owed, late>>

\* ------------------------------------------------------------------------

\* One step of thread t, whose begin_session calls make a request of R
\* with a key length of K.
Step(t, R, K) ==
    \/ \E c \in Ctxs, flags \in FlagSets, algo \in Algos, r \in R,
          keylen \in K :
          crypto_stm32_session_setup(t, c, flags, algo, r[1], r[2], keylen)
    \/ get_unused_take(t)
    \/ get_unused_scan(t)
    \/ get_unused_give(t)
    \/ setup_state(t)
    \/ HAL_CRYP_Init_busy(t)
    \/ \E ok \in BOOLEAN : HAL_CRYP_Init(t, ok)
    \/ setup_init_fail(t)
    \/ setup_bind(t)
    \/ setup_return(t)
    \/ \E c \in Ctxs, in_len \in InLens, ctr_len \in CtrLens,
          halt \in BOOLEAN :
          crypt_hndlr(t, c, in_len, ctr_len, halt)
    \/ do_crypt_take(t)
    \/ \E ok \in BOOLEAN : HAL_CRYP_SetConfig(t, ok)
    \/ \E ok \in BOOLEAN : HAL_CRYP_Encrypt(t, ok)
    \/ \E ok \in BOOLEAN : HAL_CRYP_Decrypt(t, ok)
    \/ do_crypt_give(t)
    \/ crypt_return(t)
    \/ \E c \in Ctxs : crypto_stm32_session_free(t, c)
    \/ free_take(t)
    \/ free_scan(t)
    \/ \E ok \in BOOLEAN : HAL_CRYP_DeInit(t, ok)
    \/ free_give(t)
    \/ free_return(t)

\* Preemptive threads sharing the accelerator.
Next == \E t \in Threads : Step(t, SomeRequests, SomeKeyLens)

Spec == Init /\ [][Next]_vars

\* A single caller, every mode in either direction.
NextSeq == Step(1, Requests, SomeKeyLens)

SpecSeq == Init /\ [][NextSeq]_vars

\* A single caller of the CTR handlers, every key length.
KeyRequests == {<<"CTR", "ENCRYPT">>, <<"CTR", "DECRYPT">>}

NextKey == Step(1, KeyRequests, KeyLens)

SpecKey == Init /\ [][NextKey]_vars

\* copy_reverse_words on a buffer of its own: the source is the buffer as
\* it is, the destination has its length.
apply_copy_reverse_words ==
    /\ words.n < 2
    /\ words' = [words EXCEPT
                    !.buf = copy_reverse_words(
                                [k \in 1..Len(words.buf) |-> 0],
                                Len(words.buf), words.buf, Len(words.buf)),
                    !.n = words.n + 1]
    /\ UNCHANGED <<shared, ctxs, key, pkt, pc, cur, i, args, ret, used_conf,
                   ghost>>

NextWords == apply_copy_reverse_words

SpecWords == InitWords /\ [][NextWords]_vars

\* ------------------------------------------------------------------------
\* properties
\* ------------------------------------------------------------------------

\* The thread is inside a call of the accelerator interface.
InAccel(t) ==
    pc[t] \in {"hal_init", "hal_init_run", "hal_setconfig", "hal_encrypt",
               "hal_decrypt", "hal_deinit"}

\* The thread is inside the configure-and-execute unit of do_encrypt or
\* do_decrypt.
InCrypt(t) == pc[t] \in {"hal_setconfig", "hal_encrypt", "hal_decrypt"}

\* The thread is about to return from a call of the driver.
Returning(t) == pc[t] \in {"setup_return", "crypt_return", "free_return"}

\* C1: SetConfig and the Encrypt/Decrypt that follows it are one unit under
\* the device lock: no two threads are between their SetConfig and the end
\* of their Encrypt/Decrypt together, the accelerator holds the caller's
\* own session configuration while its Encrypt/Decrypt runs, and a
\* successful call has run its data under that configuration.
C1_ConfigureExecuteAtomic ==
    /\ \A t, u \in Threads : InCrypt(t) /\ InCrypt(u) => t = u
    /\ \A t \in Threads :
          /\ InCrypt(t) => device_sem = t
          /\ pc[t] \in {"hal_encrypt", "hal_decrypt"}
                => hcryp_conf = sessn[cur[t]]
          /\ pc[t] = "crypt_return" /\ ret[t] = "0"
                => used_conf[t] = sessn[cur[t]]

\* Two threads race on two distinct sessions: one runs its data while the
\* other waits for the device lock.
C1_Witness ==
    \E t, u \in Threads :
        /\ pc[t] \in {"hal_encrypt", "hal_decrypt"}
        /\ pc[u] = "do_take"
        /\ sessn[cur[t]] # sessn[cur[u]]

\* C2: at most one thread is inside an accelerator call (HAL_CRYP_Init,
\* _DeInit, _SetConfig, _Encrypt, _Decrypt) at any instant.
C2_OneThreadInAccelerator ==
    Cardinality({t \in Threads : InAccel(t)}) <= 1

\* C3: the thread that deinitializes the accelerator on the last free holds
\* the device lock while HAL_CRYP_DeInit runs.
C3_DeinitUnderDeviceLock ==
    \A t \in Threads : pc[t] = "hal_deinit" => device_sem = t

\* C4: HAL_CRYP_Init is called at most once per activation: of two
\* begin_session calls that overlap, at most one is ever in HAL_CRYP_Init.
C4_InitOncePerActivation ==
    Cardinality({t \in Threads : pc[t] \in {"hal_init", "hal_init_run"}}) <= 1

\* C5: free_session calls HAL_CRYP_DeInit only when no slot is in use, and
\* not twice for one return of the live count to 0: every call answers a
\* return to 0 that no earlier call has answered.
C5_DeinitOncePerReturnToZero ==
    /\ \A t \in Threads : pc[t] = "hal_deinit" => LiveCount = 0
    /\ owed >= 0

\* The begin_session that thread t is returning from, or whose session it
\* is returning from freeing, was valid and no other call overlapped or
\* followed it.
Followed(t) == pre.ctx # NONE /\ pre.ctx = cur[t]

\* Slots in use when the followed begin_session was called.
PreCount == Cardinality({s \in Slots : pre.snap[s]})

\* C6: with all CRYPTO_MAX_SESSION slots taken a valid begin_session fails
\* with -ENOSPC; with a slot free again after a free_session, and sessions
\* still bound, it succeeds.
C6_PoolExhaustion ==
    \A t \in Threads :
        Followed(t) /\ pc[t] = "setup_return" =>
            /\ PreCount = CRYPTO_MAX_SESSION => ret[t] = "-ENOSPC"
            /\ PreCount < CRYPTO_MAX_SESSION => ret[t] # "-ENOSPC"
            /\ 0 < PreCount /\ PreCount < CRYPTO_MAX_SESSION => ret[t] = "0"

\* A valid begin_session returns -ENOSPC from a full pool.
C6_Witness ==
    \E t \in Threads :
        /\ Followed(t) /\ pc[t] = "setup_return"
        /\ PreCount = CRYPTO_MAX_SESSION
        /\ ret[t] = "-ENOSPC"

\* C7, as claimed: from a pool with a free slot, begin_session and the
\* free_session that follows it both succeed, and the in_use flags are
\* then what they were.
C7_BeginFreeSucceed ==
    \A t \in Threads :
        Followed(t) /\ PreCount < CRYPTO_MAX_SESSION =>
            /\ pc[t] = "setup_return" => ret[t] = "0"
            /\ pc[t] = "free_return" => ret[t] = "0" /\ in_use = pre.snap

\* C7, amended: begin_session succeeds unless it has to initialize the
\* accelerator and HAL_CRYP_Init fails, free_session succeeds unless it
\* frees the last session and HAL_CRYP_DeInit fails; either failure is
\* -EIO, and in every case the in_use flags are what they were before
\* begin_session.
C7_BeginFreeRestores ==
    \A t \in Threads :
        Followed(t) /\ PreCount < CRYPTO_MAX_SESSION =>
            /\ pc[t] = "setup_return" =>
                  \/ ret[t] = "0"
                  \/ /\ ret[t] = "-EIO"
                     /\ pre.state = "RESET"
                     /\ in_use = pre.snap
            /\ pc[t] = "free_return" =>
                  /\ in_use = pre.snap
                  /\ \/ ret[t] = "0"
                     \/ ret[t] = "-EIO" /\ PreCount = 0

\* A session with a 256-bit key is set up in a pool that already has a
\* session and freed at once.
C7_Witness ==
    \E t \in Threads :
        /\ Followed(t) /\ pc[t] = "free_return"
        /\ pre.keylen = 32
        /\ PreCount = 1
        /\ ret[t] = "0"

\* C8: a thread that returns from begin_session, from a mode handler or
\* from free_session, with 0 or with an error, holds neither semaphore.
C8_NoLockHeldOnReturn ==
    \A t \in Threads :
        Returning(t) \/ pc[t] = "idle" =>
            device_sem # t /\ session_sem # t

\* free_session returns the error of a failed deinitialization.
C8_Witness ==
    \E t \in Threads : pc[t] = "free_return" /\ ret[t] = "-EIO"

\* C9: no thread is inside an accelerator call while it holds the session
\* (pool) semaphore.
C9_PoolLockNotHeldInAccelerator ==
    \A t \in Threads : InAccel(t) => session_sem # t

\* Parameters that begin_session does not support.
Unsupported(flags, algo, mode, keylen) ==
    \/ ~(flags \subseteq {CAP_RAW_KEY, CAP_SEPARATE_IO_BUFS, CAP_SYNC_OPS})
    \/ algo # "AES"
    \/ mode \notin {"ECB", "CBC", "CTR"}
    \/ keylen \notin {16, 24, 32}

\* C10: a begin_session with an unsupported flag, algorithm, mode or key
\* length returns -EINVAL and leaves the pool, the accelerator, both
\* semaphores and the context's session and handler as they were.
C10_InvalidRejected ==
    [][\A t \in Threads, c \in Ctxs, flags \in FlagSets, algo \in Algos,
          r \in Requests, keylen \in KeyLens :
          crypto_stm32_session_setup(t, c, flags, algo, r[1], r[2], keylen)
              /\ Unsupported(flags, algo, r[1], keylen)
          => /\ pc'[t] = "setup_return"
             /\ ret'[t] = "-EINVAL"
             /\ UNCHANGED <<in_use, State, hcryp_conf, device_sem,
                            session_sem, sessn, hndlr>>]_vars

\* A begin_session is rejected while a session is bound.
C10_Witness ==
    \E t \in Threads :
        /\ pc[t] = "setup_return"
        /\ ret[t] = "-EINVAL"
        /\ LiveCount > 0

\* Thread t is in a begin_session that has claimed a slot and has neither
\* bound nor released it yet.
Claiming(t) ==
    /\ pc[t] \in {"gu_give", "setup_state", "hal_init", "hal_init_run",
                  "setup_init_fail", "setup_bind"}
    /\ i[t] # NONE

\* Context c is in a free_session, which has cleared its slot's flag.
Freeing(c) ==
    \E t \in Threads :
        /\ cur[t] = c
        /\ pc[t] \in {"free_take", "free_scan", "hal_deinit", "free_give",
                      "free_return"}

\* Slot s belongs to a live session or to a begin_session in progress,
\* other than context c's.
OwnedBesides(s, c) ==
    \/ \E d \in Ctxs \ {c} : sessn[d] = s /\ ~Freeing(d)
    \/ \E t \in Threads : Claiming(t) /\ i[t] = s /\ cur[t] # c

\* C11: a begin_session that fails binds nothing and leaves no slot of its
\* own in use; after an initialization failure the slot it had claimed is
\* free (or already another call's), and every slot in use belongs to a
\* bound context or to a begin_session still in progress.
C11_FailedSetupFreesSlot ==
    /\ \A t \in Threads :
          pc[t] = "setup_return" /\ ret[t] # "0" =>
              /\ sessn[cur[t]] = NONE
              /\ hndlr[cur[t]] = NoHndlr
              /\ ret[t] = "-EIO" /\ in_use[i[t]]
                    => OwnedBesides(i[t], cur[t])
    /\ \A s \in Slots : in_use[s] => OwnedBesides(s, NONE)

\* HAL_CRYP_Init has failed and the claimed slot is free on return, the
\* other slot being in use.
C11_Witness ==
    \E t \in Threads :
        /\ pc[t] = "setup_return" /\ ret[t] = "-EIO"
        /\ ~in_use[i[t]]
        /\ LiveCount > 0

\* C12: when the deinitialization fails, free_session returns -EIO with
\* its slot released all the same: on return the slot is free, unless
\* another begin_session has claimed it since.
C12_FailedTeardownFreesSlot ==
    \A t \in Threads :
        pc[t] = "free_return" /\ ret[t] = "-EIO" /\ in_use[sessn[cur[t]]]
            => OwnedBesides(sessn[cur[t]], cur[t])

\* The slot freed by a failed teardown has been claimed again.
C12_Witness ==
    \E t \in Threads :
        /\ pc[t] = "free_return" /\ ret[t] = "-EIO"
        /\ in_use[sessn[cur[t]]]

\* C20: a begin_session returns 0, and a bound session's data goes to the
\* accelerator, only while the accelerator is initialized: HAL_CRYP_Init
\* has completed with HAL_OK since the last deinitialization.
C20_BoundImpliesInitialized ==
    \A t \in Threads :
        /\ pc[t] = "setup_return" /\ ret[t] = "0" => State = "READY"
        /\ InCrypt(t) => State = "READY"

\* C17: no two live sessions, and no two begin_session calls in progress,
\* have the same slot, and the slot a scan claims is the lowest one free:
\* every slot below it is in use, or has been released since the scan
\* began (session_free and the initialization failure clear the flag
\* outside the session semaphore).
C17_AtomicFirstFit ==
    /\ \A c, d \in Ctxs :
          c # d /\ sessn[c] # NONE /\ sessn[c] = sessn[d]
              => Freeing(c) \/ Freeing(d)
    /\ \A t \in Threads :
          Claiming(t) =>
              /\ in_use[i[t]]
              /\ ~OwnedBesides(i[t], cur[t])
              /\ pc[t] = "gu_give" =>
                    /\ session_sem = t
                    /\ \A j \in Slots :
                          j < i[t] => in_use[j] \/ j \in late

\* A scan claims the second slot while the first is in use, and one
\* claims it although the first has just been released.
C17_Witness ==
    \E t \in Threads :
        /\ pc[t] = "gu_give" /\ i[t] = 1
        /\ ~in_use[0] /\ 0 \in late

\* Thread t is in a call of the handler h.
InHndlr(t, h) ==
    /\ pc[t] \in {"do_take", "hal_setconfig", "hal_encrypt", "hal_decrypt",
                  "do_give", "crypt_return", "halted"}
    /\ hndlr[cur[t]] = h

\* C13: an ECB call, encrypt or decrypt, with more than 16 bytes of input
\* returns -EINVAL without taking the device semaphore, without any
\* accelerator call, and with pkt->out_len as the caller left it.
C13_EcbOversizeRejected ==
    \A t \in Threads, op \in OpTypes :
        InHndlr(t, <<"ECB", op>>) /\ pkt[t].in_len > 16 =>
            /\ pc[t] = "crypt_return"
            /\ ret[t] = "-EINVAL"
            /\ device_sem # t
            /\ used_conf[t] = NONE
            /\ pkt[t].out_len = 0

\* An ECB decrypt of two blocks is rejected.
C13_Witness ==
    \E t \in Threads :
        /\ InHndlr(t, <<"ECB", "DECRYPT">>)
        /\ pkt[t].in_len = 2 * BLOCK_LEN_BYTES
        /\ ret[t] = "-EINVAL"

\* C16: CBC decrypt hands the accelerator the in_len - 16 bytes of
\* ciphertext that follow the IV, none at or beyond offset in_len of the
\* input, and reports out_len = in_len - 16 on success.
C16_CbcDecryptRange ==
    \A t \in Threads :
        InHndlr(t, <<"CBC", "DECRYPT">>) =>
            /\ pkt[t].off = BLOCK_LEN_BYTES
            /\ pkt[t].len = pkt[t].in_len - BLOCK_LEN_BYTES
            /\ pkt[t].off + pkt[t].len <= pkt[t].in_len
            /\ pc[t] = "crypt_return" /\ ret[t] = "0"
                  => pkt[t].out_len = pkt[t].in_len - BLOCK_LEN_BYTES

\* C19: in every CTR call on a session with a supported key length,
\* ivlen = keylen - ctr_len / 8 is within the 16 bytes of the counter
\* block, so the assertions of copy_reverse_words hold.
C19_IvLenWithinBlock ==
    \A t \in Threads, op \in OpTypes :
        InHndlr(t, <<"CTR", op>>) =>
            /\ 0 <= pkt[t].ivlen
            /\ pkt[t].ivlen <= BLOCK_LEN_BYTES
            /\ copy_reverse_words_pre(BLOCK_LEN_BYTES, pkt[t].ivlen)
            /\ pc[t] # "halted"

\* C15: after a successful begin_session with a key of L bytes the key
\* buffer of the session holds the key with the bytes of each 4-byte word
\* reversed in its first L bytes, and zero in the bytes beyond.
C15_KeyStoredZeroPadded ==
    \A t \in Threads :
        pc[t] = "setup_return" /\ ret[t] = "0" =>
            \A w \in 0..(BLOCK_LEN_BYTES \div 2 - 1), b \in 1..4 :
                key[sessn[cur[t]]][4 * w + b] =
                    IF 4 * w + b <= ctx_keylen[cur[t]]
                       THEN UserKey(ctx_keylen[cur[t]])[4 * w + 5 - b]
                       ELSE 0

\* C14: copy_reverse_words is its own inverse on a buffer of a whole
\* number of words: after one application every word is reversed, after
\* two the buffer holds its first bytes again.
C14_ReverseTwiceRestores ==
    /\ words.n = 1 =>
          \A k \in 1..Len(words.buf) :
              words.buf[k] =
                  words.orig[4 * ((k - 1) \div 4) + (3 - ((k - 1) % 4)) + 1]
    /\ words.n = 2 => words.buf = words.orig

\* A buffer of two words, neither of which reads the same backwards, has
\* been transformed twice.
C14_Witness ==
    /\ words.n = 2
    /\ Len(words.orig) = 8
    /\ words.orig[1] # words.orig[4]
    /\ words.orig[6] # words.orig[7]
    /\ words.buf = words.orig

\* Thread t waits for a semaphore that is taken.
Blocked(t) ==
    \/ pc[t] \in {"gu_take", "free_take"} /\ session_sem # NONE
    \/ pc[t] = "do_take" /\ device_sem # NONE

\* The thread that holds the semaphore thread t waits for.
Holder(t) == IF pc[t] = "do_take" THEN device_sem ELSE session_sem

\* C18: no thread holds the session semaphore and the device semaphore
\* together, and no call is ever stopped for good: a thread inside a call
\* either has a step to take or waits for a semaphore whose holder has
\* one, so that with terminating accelerator calls and fair semaphores
\* every call returns.
C18_DeadlockFree ==
    \A t \in Threads :
        /\ ~(device_sem = t /\ session_sem = t)
        /\ pc[t] # "halted"
        /\ Blocked(t) =>
              /\ Holder(t) # t
              /\ ~Blocked(Holder(t))
              /\ pc[Holder(t)] # "halted"

====
